---- MODULE Spec2Model ----
(***************************************************************************)
(* pyteamcity: the QuerySet engine (core/queryset.py), its Project         *)
(* subclass (project.py), the Manager factory (core/manager.py) and the    *)
(* connection object (teamcity.py), as a state machine over one QuerySet   *)
(* instance talking to one server.                                         *)
(*                                                                         *)
(* Strings are TLA+ strings, concatenated with \o as Python does with +.   *)
(* Python's None is the string None where a str is expected, and the       *)
(* record NoneVal where a dict is expected.                                *)
(***************************************************************************)
EXTENDS Integers, Sequences, FiniteSets, TLC

VARIABLES teamcity, projects, locator, data_dict, url, call

vars == <<teamcity, projects, locator, data_dict, url, call>>

(***************************************************************************)
(* Bounds of the model.                                                    *)
(***************************************************************************)
\* Largest number of projects the server holds.
MaxProjects == 2
\* Largest number of predicates a locator accumulates.
MaxPreds == 2

None == "None"

\* The two falsy values _data_dict takes: {} from __init__, None from get.
EmptyDict == [kind |-> "{}"]
NoneVal == [kind |-> "None"]

\* The projects a server may hold, in the server's order.
Catalogue ==
    <<[kind |-> "project", id |-> "A", name |-> "n"],
      [kind |-> "project", id |-> "B", name |-> "n"],
      [kind |-> "project", id |-> "C", name |-> "m"],
      [kind |-> "project", id |-> "D", name |-> "m"]>>
\* The values a client passes to filter(id=..., name=...).
Ids == {"A"}
FilterNames == {"n"}

Last(s) == s[Len(s)]

(***************************************************************************)
(* teamcity.py: TeamCity.__init__                                          *)
(***************************************************************************)
HTTP_PORT == 80
HTTPS_PORT == 443

\* self.port = port or (443 if protocol == "https" else 80); port 0 stands
\* for None (both are falsy).
default_port(protocol, port) ==
    IF port # 0 THEN port
    ELSE IF protocol = "https" THEN HTTPS_PORT ELSE HTTP_PORT

base_base_url(protocol, server, port) ==
    LET b == protocol \o "://" \o server
    IN  IF protocol = "http" /\ port # HTTP_PORT THEN b \o ":" \o ToString(port)
        ELSE IF protocol = "https" /\ port # HTTPS_PORT
             THEN b \o ":" \o ToString(port)
        ELSE b

\* username and password: "" stands for None (both are falsy).
TeamCityInit(username, password, protocol, server, port) ==
    LET p == default_port(protocol, port)
        bb == base_base_url(protocol, server, p)
    IN  [username |-> username, password |-> password, protocol |-> protocol,
         server |-> server, port |-> p, base_base_url |-> bb,
         base_url |-> IF username # "" /\ password # ""
                      THEN bb \o "/httpAuth" ELSE bb \o "/guestAuth"]

\* TeamCity(username, password, protocol, server, port) as clients make it.
Connections ==
    {TeamCityInit("", "", "http", "tc", 0),
     TeamCityInit("admin", "pw", "https", "tc", 0),
     TeamCityInit("admin", "", "http", "tc", 8111),
     TeamCityInit("admin", "pw", "https", "tc", 8111)}

(***************************************************************************)
(* core/locator.py is not among the sources: the Locator is modelled from  *)
(* the specification (an ordered sequence of name/value pairs, rendered    *)
(* comma-joined as name:value).                                            *)
(***************************************************************************)
Locator == << >>

add_pred(loc, name, value) == Append(loc, <<name, value>>)

RECURSIVE render(_)
render(loc) ==
    IF loc = << >> THEN ""
    ELSE IF Len(loc) = 1 THEN loc[1][1] \o ":" \o loc[1][2]
    ELSE loc[1][1] \o ":" \o loc[1][2] \o "," \o render(Tail(loc))

(***************************************************************************)
(* project.py: ProjectQuerySet.uri and QuerySet.__init__'s base_url        *)
(***************************************************************************)
uri == "/app/rest/projects/"

base_url == teamcity.base_url \o uri

(***************************************************************************)
(* core/queryset.py: QuerySet._get_url.  qs is the QuerySet's fields.      *)
(***************************************************************************)
\* A variant of _get_url that uses the collection form in detail mode too.
_get_url_query(qs, details, href) ==
    IF href # None THEN "http://" \o teamcity.server \o href
    ELSE LET locator_str == render(qs.locator)
         IN  IF locator_str # "" THEN base_url \o "?locator=" \o locator_str
             ELSE base_url

_get_url(qs, details, href) ==
    IF href # None THEN "http://" \o teamcity.server \o href
    ELSE LET locator_str == render(qs.locator)
         IN  IF locator_str # ""
             THEN IF details THEN base_url \o locator_str
                  ELSE base_url \o "?locator=" \o locator_str
             ELSE base_url

(***************************************************************************)
(* The transport behind self.teamcity.session.get(url): a TeamCity server  *)
(* holding `projects`.  It answers a collection URL with count and list,   *)
(* a detail URL with the first matching project, and anything else, or a   *)
(* locator that matches nothing, with 404.  `reply` is the server's choice *)
(* for this request: status 200 lets the request through, any other status *)
(* is an error response with the given body text.                          *)
(***************************************************************************)
Preds == ({"id"} \X Ids) \cup ({"name"} \X FilterNames)

AllLocators == UNION {[1..n -> Preds] : n \in 0..MaxPreds}

OK == [status_code |-> 200, text |-> "json"]

Replies ==
    {OK, [status_code |-> 401, text |-> "denied"], [status_code |-> 500, text |-> "oops"]}

\* The replies to a call that issues up to n <= 2 requests: an error reply
\* ends the call, so a second reply follows only a first that went through.
ReplyRuns(n) ==
    IF n = 0 THEN {<< >>}
    ELSE IF n = 1 THEN {<<r>> : r \in Replies}
    ELSE {<<r>> : r \in Replies \ {OK}} \cup {<<OK, r>> : r \in Replies}

matches(p, loc) ==
    \A i \in 1..Len(loc) :
        IF loc[i][1] = "id" THEN p.id = loc[i][2] ELSE p.name = loc[i][2]

select(loc) == SelectSeq(projects, LAMBDA p : matches(p, loc))

collection_json(loc) ==
    [kind |-> "collection", count |-> Len(select(loc)), project |-> select(loc)]

detail_json(loc) == select(loc)[1]

not_found == [status_code |-> 404, text |-> "not found", json |-> NoneVal]

\* The answer to a request that went through: coll and det are the locators
\* whose collection URL, and whose detail URL, the requested URL is.
answer(coll, det) ==
    IF coll # {}
    THEN [status_code |-> 200, text |-> "json",
          json |-> collection_json(CHOOSE L \in coll : TRUE)]
    ELSE IF det # {} /\ select(CHOOSE L \in det : TRUE) # << >>
    THEN [status_code |-> 200, text |-> "json",
          json |-> detail_json(CHOOSE L \in det : TRUE)]
    ELSE not_found

session_get(u, reply) ==
    IF reply.status_code # 200
    THEN [status_code |-> reply.status_code, text |-> reply.text, json |-> NoneVal]
    ELSE answer({L \in AllLocators :
                   u = base_url \o (IF L = << >> THEN ""
                                    ELSE "?locator=" \o render(L))},
                {L \in AllLocators \ {<< >>} : u = base_url \o render(L)})

\* requests.Response.raise_for_status: 4xx and 5xx raise requests.HTTPError.
raise_for_status(res) == res.status_code >= 400 /\ res.status_code < 600

\* str(e) of the requests.HTTPError.
http_error_msg(res, u) ==
    ToString(res.status_code)
    \o (IF res.status_code < 500 THEN " Client Error" ELSE " Server Error")
    \o " for url: " \o u

(***************************************************************************)
(* Python dicts decoded from JSON: d[key] and d.get(key).                  *)
(***************************************************************************)
HasKey(d, key) == key \in (DOMAIN d \ {"kind"})

dict_get(d, key) == IF HasKey(d, key) THEN d[key] ELSE None

\* `not self._data_dict` is true of None and of the empty dict.
Truthy(d) == d.kind \notin {"None", "{}"}

KeyError(key) == [kind |-> "raise", exc |-> "KeyError", key |-> key]

(***************************************************************************)
(* core/queryset.py: QuerySet._fetch and QuerySet._data.  Each operator    *)
(* takes the QuerySet's fields qs and the server's replies to the requests *)
(* it issues, in order (a request beyond them goes through), and gives the *)
(* fields afterwards, the requests issued and what the call returned or    *)
(* raised.                                                                 *)
(***************************************************************************)
UNAUTHORIZED == 401

\* A variant of exception_class without the 401 case.
exception_class_generic(status_code) == "HTTPError"

exception_class(status_code) ==
    IF status_code = UNAUTHORIZED THEN "UnauthorizedError" ELSE "HTTPError"

raised(res, u) ==
    [kind |-> "raise", exc |-> exception_class(res.status_code),
     status_code |-> res.status_code, reason |-> http_error_msg(res, u),
     text |-> res.text]

\* res.raise_for_status() and its except clause, then res.json().
receive(qs, details, u, res) ==
    [qs |-> [qs EXCEPT !.url = u],
     reqs |-> <<[url |-> u, details |-> details, status_code |-> res.status_code,
                 text |-> res.text, json |-> res.json]>>,
     ret |-> IF raise_for_status(res) THEN raised(res, u)
             ELSE [kind |-> "dict", value |-> res.json]]

\* res = self.teamcity.session.get(self.url)
send(qs, details, u, replies) ==
    receive(qs, details, u,
            session_get(u, IF replies = << >> THEN OK ELSE Head(replies)))

_fetch(qs, details, href, replies) ==
    send(qs, details, _get_url(qs, details, href), replies)

\* A variant of memoize that keeps the error response's body as the payload.
memoize_failure(f) ==
    IF f.ret.kind = "raise"
    THEN [f EXCEPT !.qs.data_dict = [kind |-> "error", text |-> f.ret.text]]
    ELSE [f EXCEPT !.qs.data_dict = f.ret.value]

\* self._data_dict = self._fetch(..): no assignment when _fetch raises.
memoize(f) ==
    IF f.ret.kind = "raise" THEN f ELSE [f EXCEPT !.qs.data_dict = f.ret.value]

\* A variant of _data without the memo test: it fetches on every call.
_data_refetch(qs, details, href, replies) ==
    memoize(_fetch(qs, details, href, replies))

_data(qs, details, href, replies) ==
    IF ~Truthy(qs.data_dict)
    THEN memoize(_fetch(qs, details, href, replies))
    ELSE [qs |-> qs, reqs |-> << >>,
          ret |-> [kind |-> "dict", value |-> qs.data_dict]]

(***************************************************************************)
(* project.py: Project.from_dict, ProjectQuerySet.filter and __iter__      *)
(***************************************************************************)
from_dict(d) ==
    [id |-> dict_get(d, "id"), name |-> dict_get(d, "name"), data_dict |-> d]

\* A variant of filter that also drops the memoized payload.
filter_resetting(qs, id, name) ==
    LET q1 == IF id # None
              THEN [qs EXCEPT !.locator = add_pred(qs.locator, "id", id)]
              ELSE qs
        q2 == IF name # None
              THEN [q1 EXCEPT !.locator = add_pred(q1.locator, "name", name)]
              ELSE q1
    IN  [q2 EXCEPT !.data_dict = EmptyDict]

filter(qs, id, name) ==
    LET q1 == IF id # None
              THEN [qs EXCEPT !.locator = add_pred(qs.locator, "id", id)]
              ELSE qs
    IN  IF name # None
        THEN [q1 EXCEPT !.locator = add_pred(q1.locator, "name", name)]
        ELSE q1

\* (Project.from_dict(d, self) for d in data["project"]), data being what
\* self._data() gave or raised.
entities(d) ==
    IF d.ret.kind = "raise" THEN d
    ELSE IF ~HasKey(d.ret.value, "project")
    THEN [d EXCEPT !.ret = KeyError("project")]
    ELSE [d EXCEPT !.ret =
            [kind |-> "list",
             value |-> [i \in 1..Len(d.ret.value.project) |->
                          from_dict(d.ret.value.project[i])]]]

\* The generator's outermost iterable, self._data()["project"], is evaluated
\* when the generator is made; the value is the sequence it then yields.
__iter__(qs, replies) == entities(_data(qs, FALSE, None, replies))

(***************************************************************************)
(* core/queryset.py: QuerySet.__len__, __getitem__ and get                 *)
(***************************************************************************)
\* data["count"], data being what self._data() gave or raised.
count(d) ==
    IF d.ret.kind = "raise" THEN d
    ELSE IF ~HasKey(d.ret.value, "count")
    THEN [d EXCEPT !.ret = KeyError("count")]
    ELSE [d EXCEPT !.ret = [kind |-> "int", value |-> d.ret.value.count]]

__len__(qs, replies) == count(_data(qs, FALSE, None, replies))

\* A variant of islice that starts one element late.
islice_skip(s, start, stop) ==
    SubSeq(s, start + 2, IF stop < Len(s) THEN stop ELSE Len(s))

\* itertools.islice(s, start, stop) with step None.
islice(s, start, stop) ==
    SubSeq(s, start + 1, IF stop < Len(s) THEN stop ELSE Len(s))

\* next(..) of the slice `one` of the iteration `it`.
next(it, one) ==
    IF one = << >>
    THEN [it EXCEPT !.ret = [kind |-> "raise", exc |-> "StopIteration"]]
    ELSE [it EXCEPT !.ret = [kind |-> "entity", value |-> one[1]]]

\* self[index] over the iteration `it` of self.  index is an int
\* ([kind |-> "int", i |-> ..]) or a slice without step ([kind |-> "slice",
\* start |-> .., stop |-> ..]); index + 1 raises TypeError on a slice
\* before anything is iterated.
item(it, index) ==
    IF it.ret.kind = "raise" THEN it
    ELSE IF index.kind = "int"
    THEN next(it, islice(it.ret.value, index.i, index.i + 1))
    ELSE [it EXCEPT !.ret =
            [kind |-> "list",
             value |-> islice(it.ret.value, index.start, index.stop)]]

__getitem__(qs, index, replies) == item(__iter__(qs, replies), index)

\* A variant of multiple_objects that evaluates len(self) whatever the flag.
multiple_objects_always(qs, raise_multiple_objects_returned, replies) ==
    __len__(qs, replies)

\* `raise_multiple_objects_returned and len(self) > 1`: len(self) is
\* evaluated only when the flag is set.
multiple_objects(qs, raise_multiple_objects_returned, replies) ==
    IF raise_multiple_objects_returned THEN __len__(qs, replies)
    ELSE [qs |-> qs, reqs |-> << >>, ret |-> [kind |-> "int", value |-> 0]]

\* A variant of invalidate that keeps the memoized payload.
invalidate_kept(qs) == qs

\* self._data_dict = None
invalidate(qs) == [qs EXCEPT !.data_dict = NoneVal]

\* self.__class__._from_dict(self._data(details=True), self), d being what
\* self._data(details=True) gave or raised after the requests of n.
entity(n, d) ==
    [qs |-> d.qs, reqs |-> n.reqs \o d.reqs,
     ret |-> IF d.ret.kind = "raise" THEN d.ret
             ELSE [kind |-> "entity", value |-> from_dict(d.ret.value)]]

\* The last three lines of get, on the invalidated QuerySet q2.
materialize(n, q2, just_url, rest) ==
    IF just_url
    THEN [qs |-> q2, reqs |-> n.reqs,
          ret |-> [kind |-> "str", value |-> _get_url(q2, TRUE, None)]]
    ELSE entity(n, _data(q2, TRUE, None, rest))

\* get from its second line on, n being what the multiple-objects test
\* gave or raised.
checked(n, just_url, raise_multiple_objects_returned, replies) ==
    IF n.ret.kind = "raise" THEN n
    ELSE IF raise_multiple_objects_returned /\ n.ret.value > 1
    THEN [n EXCEPT !.ret = [kind |-> "raise", exc |-> "MultipleObjectsReturned"]]
    ELSE materialize(n, invalidate(n.qs), just_url,
                     SubSeq(replies, Len(n.reqs) + 1, Len(replies)))

get(qs, just_url, raise_multiple_objects_returned, id, name, replies) ==
    checked(multiple_objects(filter(qs, id, name),
                             raise_multiple_objects_returned, replies),
            just_url, raise_multiple_objects_returned, replies)

(***************************************************************************)
(* The state machine: one QuerySet (self) obtained from Manager.all(), and *)
(* one action per call a client makes on it.  `call` records the last call *)
(* made: its arguments, the QuerySet's fields before it, the requests it   *)
(* issued and what it returned or raised.                                  *)
(***************************************************************************)
self == [locator |-> locator, data_dict |-> data_dict, url |-> url]

\* QuerySet.__init__: empty Locator, _data_dict = {}; self.url is not set
\* before the first _fetch.
QuerySetInit == [locator |-> Locator, data_dict |-> EmptyDict, url |-> None]

Done(op, args, r) ==
    /\ locator' = r.qs.locator
    /\ data_dict' = r.qs.data_dict
    /\ url' = r.qs.url
    /\ call' = [op |-> op, args |-> args, fetched |-> Truthy(data_dict),
                reqs |-> r.reqs, ret |-> r.ret]
    /\ UNCHANGED <<teamcity, projects>>

Servers == {SubSeq(Catalogue, 1, k) : k \in 0..MaxProjects}

Init ==
    /\ teamcity \in Connections
    /\ projects \in Servers
    /\ locator = QuerySetInit.locator
    /\ data_dict = QuerySetInit.data_dict
    /\ url = QuerySetInit.url
    /\ call = [op |-> "all", args |-> [none |-> None], fetched |-> FALSE,
               reqs |-> << >>, ret |-> [kind |-> "self"]]

\* Manager.all(): a brand-new QuerySet takes the place of the old one.
all ==
    Done("all", [none |-> None],
         [qs |-> QuerySetInit, reqs |-> << >>, ret |-> [kind |-> "self"]])

Filter ==
    \E id \in Ids \cup {None}, name \in FilterNames \cup {None} :
        /\ Len(filter(self, id, name).locator) <= MaxPreds
        /\ Done("filter", [id |-> id, name |-> name],
                [qs |-> filter(self, id, name), reqs |-> << >>,
                 ret |-> [kind |-> "self"]])

LenCall ==
    \E reply \in Replies :
        Done("__len__", [none |-> None], __len__(self, <<reply>>))

Iterate ==
    \E reply \in Replies :
        Done("__iter__", [none |-> None], __iter__(self, <<reply>>))

Indexes ==
    {[kind |-> "int", i |-> i] : i \in 0..MaxProjects}
    \cup {[kind |-> "slice", start |-> a, stop |-> MaxProjects] : a \in 0..1}

GetItem ==
    \E index \in Indexes, reply \in Replies :
        Done("__getitem__", [index |-> index], __getitem__(self, index, <<reply>>))

Get ==
    \E just_url \in BOOLEAN, rmor \in BOOLEAN,
       id \in Ids \cup {None}, name \in FilterNames \cup {None} :
      \E replies \in ReplyRuns((IF rmor THEN 1 ELSE 0) + (IF just_url THEN 0 ELSE 1)) :
        /\ Len(filter(self, id, name).locator) <= MaxPreds
        /\ Done("get",
                [just_url |-> just_url, raise_multiple_objects_returned |-> rmor,
                 id |-> id, name |-> name],
                get(self, just_url, rmor, id, name, replies))

Hrefs == {None, "/app/rest/projects/id:A"}

\* A direct call of _get_url(details, href); it changes no field.
GetUrl ==
    \E details \in BOOLEAN, href \in Hrefs :
        Done("_get_url", [details |-> details, href |-> href],
             [qs |-> self, reqs |-> << >>,
              ret |-> [kind |-> "str", value |-> _get_url(self, details, href)]])

Next == all \/ Filter \/ LenCall \/ Iterate \/ GetItem \/ Get \/ GetUrl

Spec == Init /\ [][Next]_vars

(***************************************************************************)
(* Properties.  In an action formula the unprimed variables are the        *)
(* QuerySet before the call and call' is the call made.                    *)
(***************************************************************************)
\* The predicates filter(id=.., name=..) adds, in the order it adds them.
Criteria(args) ==
    (IF args.id # None THEN <<<<"id", args.id>>>> ELSE << >>)
    \o (IF args.name # None THEN <<<<"name", args.name>>>> ELSE << >>)

\* The collection endpoint of projects under the connection's base URL.
BasePath == teamcity.base_url \o "/app/rest/projects/"

IsHTTPFailure(ret) ==
    ret.kind = "raise" /\ ret.exc \in {"UnauthorizedError", "HTTPError"}

\* C1: on a QuerySet whose memoized payload is absent, len() issues exactly
\* one GET; a len() that follows a len() that returned a count issues no GET
\* and returns the same count.
C1_LenFetchesOnce ==
    [][ /\ (call'.op = "__len__" /\ ~Truthy(data_dict)
              => /\ Len(call'.reqs) = 1
                 /\ call'.reqs[1].url = _get_url(self, FALSE, None))
        /\ (call.op = "__len__" /\ call.ret.kind = "int" /\ call'.op = "__len__"
              => call'.reqs = << >> /\ call'.ret = call.ret)
      ]_vars

\* A len() answered from the memoized payload of an unfiltered QuerySet of a
\* server with two projects: no request, count 2.
C1_Witness ==
    /\ call.op = "__len__" /\ call.fetched /\ call.reqs = << >>
    /\ locator = << >> /\ call.ret.kind = "int" /\ call.ret.value = 2
    /\ url = BasePath

\* C2: get(**criteria) with just_url=False (no multiple-objects check asked
\* for, or the check passed and an entity came back) applies the criteria
\* to the locator, drops the payload memoized before and issues, as its
\* last request, a GET of the detail URL of the locator so obtained; the
\* entity returned and the payload memoized afterwards are that response.
C2_GetFetchesDetail ==
    [][ (/\ call'.op = "get" /\ ~call'.args.just_url
         /\ (~call'.args.raise_multiple_objects_returned
             \/ call'.ret.kind = "entity"))
        => /\ locator' = locator \o Criteria(call'.args)
           /\ call'.reqs # << >>
           /\ Last(call'.reqs).details
           /\ Last(call'.reqs).url = BasePath \o render(locator')
           /\ IF Last(call'.reqs).status_code = 200
              THEN /\ call'.ret.kind = "entity"
                   /\ call'.ret.value.data_dict = Last(call'.reqs).json
                   /\ call'.ret.value.id = dict_get(Last(call'.reqs).json, "id")
                   /\ data_dict' = Last(call'.reqs).json
              ELSE /\ IsHTTPFailure(call'.ret)
                   /\ data_dict' = NoneVal
      ]_vars

\* filter(id="A") then get() on a QuerySet that held a payload: one request,
\* to .../projects/id:A, and the entity of project A.
C2_Witness ==
    /\ call.op = "get" /\ ~call.args.just_url /\ call.fetched
    /\ call.args.id = None /\ call.args.name = None
    /\ locator = <<<<"id", "A">>>>
    /\ Len(call.reqs) = 1
    /\ call.reqs[1].url = "http://tc/guestAuth/app/rest/projects/id:A"
    /\ call.ret.kind = "entity" /\ call.ret.value.id = "A"

\* C3, as claimed: get(raise_multiple_objects_returned=True, **criteria)
\* all of whose requests went through raises MultipleObjectsReturned exactly
\* when the server's collection filtered by the locator in force after the
\* criteria holds more than one project, whatever the QuerySet held before.
C3_RaisesIffMultiple ==
    (/\ call.op = "get" /\ call.args.raise_multiple_objects_returned
     /\ \A i \in 1..Len(call.reqs) : call.reqs[i].status_code = 200)
    => ((call.ret.kind = "raise" /\ call.ret.exc = "MultipleObjectsReturned")
        <=> Len(select(locator)) > 1)

\* C4: get(just_url=True, **criteria) that returns, returns the base path
\* followed directly by the rendered locator after the criteria, and no
\* request it issued was a detail fetch (none at all without the
\* multiple-objects check).
C4_JustUrl ==
    [][ (call'.op = "get" /\ call'.args.just_url)
        => /\ locator' = locator \o Criteria(call'.args)
           /\ \A i \in 1..Len(call'.reqs) : ~call'.reqs[i].details
           /\ ~call'.args.raise_multiple_objects_returned
                => call'.reqs = << >> /\ call'.ret.kind = "str"
           /\ call'.ret.kind = "str"
                => call'.ret.value = BasePath \o render(locator')
      ]_vars

\* get(just_url=True, id="A", name="n") on a guest http connection.
C4_Witness ==
    /\ call.op = "get" /\ call.args.just_url
    /\ call.args.id = "A" /\ call.args.name = "n"
    /\ call.reqs = << >>
    /\ call.ret.kind = "str"
    /\ call.ret.value = "http://tc/guestAuth/app/rest/projects/id:A,name:n"

\* C5: a call whose request got an error status raises UnauthorizedError
\* for 401 and HTTPError for any other error status, with the response's
\* status code and body text; the failed request is the call's last.
C5_FetchFailure ==
    \A i \in 1..Len(call.reqs) :
        call.reqs[i].status_code >= 400
        => /\ i = Len(call.reqs)
           /\ call.ret.kind = "raise"
           /\ call.ret.exc = (IF call.reqs[i].status_code = 401
                              THEN "UnauthorizedError" ELSE "HTTPError")
           /\ call.ret.status_code = call.reqs[i].status_code
           /\ call.ret.text = call.reqs[i].text

\* A 401 with body "denied" surfaced as UnauthorizedError.
C5_Witness ==
    /\ call.reqs # << >>
    /\ Last(call.reqs).status_code = 401
    /\ call.ret.kind = "raise" /\ call.ret.exc = "UnauthorizedError"
    /\ call.ret.status_code = 401 /\ call.ret.text = "denied"

\* A 500 with body "oops" surfaced as HTTPError.
C5_Witness500 ==
    /\ call.reqs # << >>
    /\ Last(call.reqs).status_code = 500
    /\ call.ret.kind = "raise" /\ call.ret.exc = "HTTPError"
    /\ call.ret.status_code = 500 /\ call.ret.text = "oops"

\* C6, as claimed: every call issues at most one request.
C6_AtMostOneRequest == Len(call.reqs) <= 1

\* C6, amended: every call issues at most one request, except get with
\* raise_multiple_objects_returned=True, which issues at most two.
C6_AtMostOneOrTwo ==
    Len(call.reqs) <=
        (IF call.op = "get" /\ call.args.raise_multiple_objects_returned
         THEN 2 ELSE 1)

\* get(raise_multiple_objects_returned=True) on an unfetched QuerySet: the
\* count fetch, then the detail fetch.
C6_Witness ==
    /\ call.op = "get" /\ call.args.raise_multiple_objects_returned
    /\ ~call.fetched /\ Len(call.reqs) = 2
    /\ ~call.reqs[1].details /\ call.reqs[2].details

\* C7, as claimed: get(raise_multiple_objects_returned=True) with
\* just_url=False that does not raise issued two requests, the count fetch
\* and then the detail fetch, whatever the QuerySet held before.
C7_TwoRequests ==
    (/\ call.op = "get" /\ call.args.raise_multiple_objects_returned
     /\ ~call.args.just_url /\ call.ret.kind # "raise")
    => /\ Len(call.reqs) = 2
       /\ ~call.reqs[1].details
       /\ call.reqs[2].details

\* C8, as claimed: _get_url with an href gives the href resolved against
\* the connection's scheme and host; without one, the base path alone for an
\* empty locator, base path + locator in detail mode and base path +
\* "?locator=" + locator in collection mode.
C8_GetUrl ==
    call.op = "_get_url"
    => call.ret.value =
         (IF call.args.href # None
          THEN teamcity.protocol \o "://" \o teamcity.server \o call.args.href
          ELSE IF locator = << >> THEN BasePath
          ELSE IF call.args.details THEN BasePath \o render(locator)
          ELSE BasePath \o "?locator=" \o render(locator))

\* C9: over a memoized payload with a list of n projects, iteration yields
\* the n entities in payload order, queryset[i] gives the entity of the
\* i-th element for i < n and raises the iterator's exhaustion for i >= n,
\* with no request and the payload left as it was.
C9_IterateAndIndex ==
    [][ (/\ call'.op \in {"__iter__", "__getitem__"}
         /\ Truthy(data_dict) /\ HasKey(data_dict, "project"))
        => /\ call'.reqs = << >>
           /\ data_dict' = data_dict
           /\ call'.op = "__iter__"
                => /\ call'.ret.kind = "list"
                   /\ Len(call'.ret.value) = Len(data_dict.project)
                   /\ \A i \in 1..Len(data_dict.project) :
                        /\ call'.ret.value[i].data_dict = data_dict.project[i]
                        /\ call'.ret.value[i].id = data_dict.project[i].id
           /\ (call'.op = "__getitem__" /\ call'.args.index.kind = "int")
                => IF call'.args.index.i < Len(data_dict.project)
                   THEN /\ call'.ret.kind = "entity"
                        /\ call'.ret.value.data_dict =
                             data_dict.project[call'.args.index.i + 1]
                        /\ call'.ret.value.id =
                             data_dict.project[call'.args.index.i + 1].id
                   ELSE /\ call'.ret.kind = "raise"
                        /\ call'.ret.exc = "StopIteration"
      ]_vars

\* queryset[2] over a memoized list of two projects: out of range.
C9_Witness ==
    /\ call.op = "__getitem__" /\ call.fetched /\ call.reqs = << >>
    /\ call.args.index.kind = "int" /\ call.args.index.i = 2
    /\ HasKey(data_dict, "project") /\ Len(data_dict.project) = 2
    /\ call.ret.kind = "raise" /\ call.ret.exc = "StopIteration"

\* queryset[1] over a memoized list of two projects: the entity of B.
C9_WitnessInRange ==
    /\ call.op = "__getitem__" /\ call.fetched /\ call.reqs = << >>
    /\ call.args.index.kind = "int" /\ call.args.index.i = 1
    /\ HasKey(data_dict, "project") /\ Len(data_dict.project) = 2
    /\ call.ret.kind = "entity" /\ call.ret.value.id = "B"

\* C10: filter() appends its predicates to the locator, issues no request
\* and leaves the memoized payload as it was; len() or iteration right after
\* a filter() on a QuerySet holding a payload issues no request and answers
\* from that payload.
C10_FilterKeepsPayload ==
    [][ /\ call'.op = "filter"
          => /\ locator' = locator \o Criteria(call'.args)
             /\ data_dict' = data_dict
             /\ url' = url
             /\ call'.reqs = << >>
        /\ (call.op = "filter" /\ Truthy(data_dict)
            /\ call'.op \in {"__len__", "__iter__"})
          => /\ call'.reqs = << >>
             /\ data_dict' = data_dict
             /\ (call'.op = "__len__" /\ HasKey(data_dict, "count"))
                  => call'.ret = [kind |-> "int", value |-> data_dict.count]
             /\ (call'.op = "__iter__" /\ HasKey(data_dict, "project"))
                  => /\ call'.ret.kind = "list"
                     /\ Len(call'.ret.value) = Len(data_dict.project)
      ]_vars

\* len() answered 2 from the payload of the unfiltered collection although
\* the locator now in force selects one project only.
C10_Witness ==
    /\ call.op = "__len__" /\ call.fetched /\ call.reqs = << >>
    /\ locator = <<<<"id", "A">>>>
    /\ call.ret.kind = "int" /\ call.ret.value = 2
    /\ Len(select(locator)) = 1
    /\ url = BasePath

\* A call one of whose requests got an error status.
Failed(c) == c.reqs # << >> /\ Last(c.reqs).status_code >= 400

Terminal == {"__len__", "__iter__", "__getitem__", "get"}

\* C11, as claimed: a call that failed with an HTTP error raised it to the
\* caller and left no memoized payload, and the terminal operation made
\* next issues a request.
C11_FailureThenAnyRefetches ==
    [][ /\ Failed(call')
          => IsHTTPFailure(call'.ret) /\ ~Truthy(data_dict')
        /\ (Failed(call) /\ call'.op \in Terminal)
          => call'.reqs # << >>
      ]_vars

\* C11, amended: a call that failed with an HTTP error raised it to the
\* caller and left no memoized payload (also a get on a QuerySet that held
\* one); the next terminal operation issues a request, to the URL of the
\* locator then in force, unless it is get(just_url=True) without the
\* multiple-objects check, which issues none and returns the URL only.
C11_FailureLeavesUnfetched ==
    [][ /\ Failed(call')
          => IsHTTPFailure(call'.ret) /\ ~Truthy(data_dict')
        /\ (Failed(call) /\ call'.op \in Terminal)
          => IF /\ call'.op = "get" /\ call'.args.just_url
                /\ ~call'.args.raise_multiple_objects_returned
             THEN call'.reqs = << >> /\ call'.ret.kind = "str"
             ELSE /\ call'.reqs # << >>
                  /\ call'.reqs[1].url \in
                       {BasePath \o render(locator'),
                        IF locator' = << >> THEN BasePath
                        ELSE BasePath \o "?locator=" \o render(locator')}
      ]_vars

\* get() on a QuerySet that held a payload, failed by a 500 on the detail
\* fetch: HTTPError raised, payload gone.
C11_Witness ==
    /\ call.op = "get" /\ call.fetched /\ Failed(call)
    /\ Last(call.reqs).details /\ Last(call.reqs).status_code = 500
    /\ call.ret.kind = "raise" /\ call.ret.exc = "HTTPError"
    /\ data_dict = NoneVal

\* len() on an unfetched QuerySet, failed by a 401: UnauthorizedError
\* raised, payload still the empty dict of __init__.
C11_WitnessLen ==
    /\ call.op = "__len__" /\ ~call.fetched /\ Failed(call)
    /\ call.ret.kind = "raise" /\ call.ret.exc = "UnauthorizedError"
    /\ data_dict = EmptyDict
====
